---------------------------- MODULE Spec2Model ----------------------------
(***************************************************************************)
(* Model of src/main.js: a WebGL viewer that fetches a binary STL file,    *)
(* decodes it (parseSTL), rescales it (normalizeModel), uploads it         *)
(* (initBuffers) and draws it in a requestAnimationFrame loop (render).    *)
(*                                                                         *)
(* JavaScript runs every handler to completion on one thread, so each      *)
(* action below is one whole handler: the synchronous part of main, the    *)
(* settling of the fetch, the settling of the body, the continuation of    *)
(* main after its await, one animation-frame callback, and the browser     *)
(* changing the canvas' display size.                                      *)
(***************************************************************************)
EXTENDS Integers, Sequences, FiniteSets, TLC

(***************************************************************************)
(* Bounds of the model.                                                    *)
(***************************************************************************)
\* largest number of 50-byte records put into a generated file
MaxT == 2
\* largest number of render ticks followed
MaxTicks == 3

(***************************************************************************)
(* JavaScript Numbers.  A Number is a pair [n, d]: the rational n/d when   *)
(* d > 0 (in lowest terms), +Infinity = 1/0, -Infinity = -1/0, NaN = 0/0.  *)
(* Finite arithmetic is exact (no rounding); the special values follow     *)
(* IEEE-754 as the JavaScript operators do.  The sign of zero is dropped.  *)
(***************************************************************************)
Abs(x) == IF x < 0 THEN -x ELSE x

RECURSIVE GCD(_, _)
GCD(a, b) == IF b = 0 THEN a ELSE GCD(b, a % b)

Num(n, d) ==
    IF d = 0 THEN [n |-> IF n > 0 THEN 1 ELSE IF n < 0 THEN -1 ELSE 0, d |-> 0]
    ELSE LET s == IF d < 0 THEN -1 ELSE 1
             g == GCD(Abs(n), Abs(d))
         IN  [n |-> (s * n) \div g, d |-> (s * d) \div g]

Whole(k) == [n |-> k, d |-> 1]
NaN == [n |-> 0, d |-> 0]
PosInfinity == [n |-> 1, d |-> 0]
NegInfinity == [n |-> -1, d |-> 0]

IsNaN(x) == x.d = 0 /\ x.n = 0
IsFinite(x) == x.d > 0
Sign(x) == IF x.n > 0 THEN 1 ELSE IF x.n < 0 THEN -1 ELSE 0

\* a + b
NumAdd(a, b) ==
    IF IsNaN(a) \/ IsNaN(b) THEN NaN
    ELSE IF a.d = 0 /\ b.d = 0 THEN (IF a.n = b.n THEN a ELSE NaN)
    ELSE IF a.d = 0 THEN a
    ELSE IF b.d = 0 THEN b
    ELSE Num(a.n * b.d + b.n * a.d, a.d * b.d)

\* a - b
NumSub(a, b) == NumAdd(a, [n |-> -(b.n), d |-> b.d])

\* a * b
NumMul(a, b) ==
    IF IsNaN(a) \/ IsNaN(b) THEN NaN
    ELSE IF a.d = 0 \/ b.d = 0
         THEN (IF Sign(a) * Sign(b) = 0 THEN NaN ELSE Num(Sign(a) * Sign(b), 0))
    ELSE Num(a.n * b.n, a.d * b.d)

\* a / b
NumDiv(a, b) ==
    IF IsNaN(a) \/ IsNaN(b) THEN NaN
    ELSE IF a.d = 0 /\ b.d = 0 THEN NaN
    ELSE IF b.d = 0 THEN Whole(0)
    ELSE IF b.n = 0 THEN (IF a.n = 0 THEN NaN ELSE Num(Sign(a), 0))
    ELSE IF a.d = 0 THEN Num(Sign(a) * Sign(b), 0)
    ELSE Num(a.n * b.d, a.d * b.n)

\* a < b, false when either is NaN
NumLess(a, b) ==
    /\ ~IsNaN(a)
    /\ ~IsNaN(b)
    /\ IF a.d = 0 /\ b.d = 0 THEN a.n < b.n
       ELSE IF a.d = 0 THEN a.n < 0
       ELSE IF b.d = 0 THEN b.n > 0
       ELSE a.n * b.d < b.n * a.d

NumLeq(a, b) == ~IsNaN(a) /\ ~IsNaN(b) /\ ~NumLess(b, a)

MathMin(a, b) ==
    IF IsNaN(a) \/ IsNaN(b) THEN NaN ELSE IF NumLess(b, a) THEN b ELSE a

MathMax(a, b) ==
    IF IsNaN(a) \/ IsNaN(b) THEN NaN ELSE IF NumLess(a, b) THEN b ELSE a

RECURSIVE Pow2(_)
Pow2(k) == IF k = 0 THEN 1 ELSE 2 * Pow2(k - 1)

(***************************************************************************)
(* DataView over the fetched ArrayBuffer.  A buffer is a sequence of bytes *)
(* (0..255); byte offset o is element o + 1.  A read that does not fit in  *)
(* the buffer throws a RangeError: [threw |-> TRUE].                       *)
(***************************************************************************)
Fits(buffer, offset, size) == offset >= 0 /\ offset + size <= Len(buffer)

\* view.getUint32(offset, true): four bytes, least significant first
getUint32(buffer, offset) ==
    IF ~Fits(buffer, offset, 4) THEN [threw |-> TRUE, val |-> 0]
    ELSE [threw |-> FALSE,
          val |-> buffer[offset + 1] + 256 * buffer[offset + 2]
                  + 65536 * buffer[offset + 3] + 16777216 * buffer[offset + 4]]

\* the value of the IEEE-754 binary32 with the given little-endian bytes
Binary32(b0, b1, b2, b3) ==
    LET sign == IF b3 >= 128 THEN -1 ELSE 1
        exp == (b3 % 128) * 2 + (b2 \div 128)
        mant == (b2 % 128) * 65536 + b1 * 256 + b0
    IN  IF exp = 255 THEN (IF mant = 0 THEN Num(sign, 0) ELSE NaN)
        ELSE IF exp = 0
             THEN (IF mant = 0 THEN Whole(0) ELSE Num(sign * mant, Pow2(149)))
        ELSE IF exp >= 150 THEN Whole(sign * (8388608 + mant) * Pow2(exp - 150))
        ELSE Num(sign * (8388608 + mant), Pow2(150 - exp))

\* view.getFloat32(offset, true)
getFloat32(buffer, offset) ==
    IF ~Fits(buffer, offset, 4) THEN [threw |-> TRUE, val |-> NaN]
    ELSE [threw |-> FALSE,
          val |-> Binary32(buffer[offset + 1], buffer[offset + 2],
                           buffer[offset + 3], buffer[offset + 4])]

(***************************************************************************)
(* parseSTL.  The result is [threw, vertices, normals]; threw = TRUE is    *)
(* the RangeError of a DataView read leaving the function.                 *)
(***************************************************************************)
Thrown == [threw |-> TRUE, vertices |-> << >>, normals |-> << >>]

\* the twelve floats one iteration of the outer loop reads, in reading order:
\* the normal at offset, offset + 4, offset + 8, then vertex j component c at
\* offset + 12 + 12 j + 4 c
RecordReads(buffer, offset) ==
    [k \in 0..11 |-> getFloat32(buffer, offset + 4 * k)]

\* PushVertices with a fault: the vertices read from the start of the record,
\* the 12 bytes of the normal not skipped
PushVerticesNoSkip(reads) ==
    [i \in 1..9 |-> reads[i - 1].val]

\* what the inner loop pushes for one record
PushVertices(reads) ==
    [i \in 1..9 |-> reads[3 + (i - 1)].val]

PushNormals(reads) ==
    [i \in 1..9 |-> reads[(i - 1) % 3].val]

RECURSIVE ParseLoop(_, _, _, _, _, _)
ParseLoop(buffer, triangleCount, i, offset, vertices, normals) ==
    IF ~(i < triangleCount)
    THEN [threw |-> FALSE, vertices |-> vertices, normals |-> normals]
    ELSE LET reads == RecordReads(buffer, offset)
         IN  IF \E k \in 0..11 : reads[k].threw
             THEN Thrown
             ELSE ParseLoop(buffer, triangleCount, i + 1, offset + 50,
                            vertices \o PushVertices(reads),
                            normals \o PushNormals(reads))

parseSTL(buffer) ==
    LET triangleCount == getUint32(buffer, 80)
    IN  IF triangleCount.threw THEN Thrown
        ELSE ParseLoop(buffer, triangleCount.val, 0, 84, << >>, << >>)

(***************************************************************************)
(* normalizeModel.                                                         *)
(***************************************************************************)
\* the loop of lines 297-304 for one axis (0 = x, 1 = y, 2 = z)
RECURSIVE BoundMin(_, _, _, _)
BoundMin(vertices, i, axis, acc) ==
    IF ~(i < Len(vertices)) THEN acc
    ELSE BoundMin(vertices, i + 3, axis, MathMin(acc, vertices[i + axis + 1]))

RECURSIVE BoundMax(_, _, _, _)
BoundMax(vertices, i, axis, acc) ==
    IF ~(i < Len(vertices)) THEN acc
    ELSE BoundMax(vertices, i + 3, axis, MathMax(acc, vertices[i + axis + 1]))

Mins(vertices) == [a \in 0..2 |-> BoundMin(vertices, 0, a, PosInfinity)]
Maxs(vertices) == [a \in 0..2 |-> BoundMax(vertices, 0, a, NegInfinity)]

\* Math.max(maxX - minX, maxY - minY, maxZ - minZ)
ModelSize(vertices) ==
    LET lo == Mins(vertices)
        hi == Maxs(vertices)
    IN  MathMax(MathMax(NumSub(hi[0], lo[0]), NumSub(hi[1], lo[1])),
                NumSub(hi[2], lo[2]))

\* CenterAndScale with a fault: the minimum subtracted instead of the centre
CenterAndScaleFromMin(v, lo, hi, scale) ==
    NumMul(NumSub(v, lo), scale)

\* one component of the centre-and-scale loop
CenterAndScale(v, lo, hi, scale) ==
    NumMul(NumSub(v, NumDiv(NumAdd(lo, hi), Whole(2))), scale)

normalizeModel(vertices) ==
    LET lo == Mins(vertices)
        hi == Maxs(vertices)
        scale == NumDiv(Whole(10), ModelSize(vertices))
    IN  [i \in 1..Len(vertices) |->
            CenterAndScale(vertices[i], lo[(i - 1) % 3], hi[(i - 1) % 3], scale)]


(***************************************************************************)
(* The files the server may answer with.  A file is built from the binary  *)
(* STL layout (80 header bytes, a little-endian count, 50-byte records)    *)
(* and then cut to a length, so that well-formed, truncated and            *)
(* over-counted files all occur.                                           *)
(***************************************************************************)
\* little-endian binary32 encodings
F32Zero == <<0, 0, 0, 0>>
F32One == <<0, 0, 128, 63>>
F32MinusOne == <<0, 0, 128, 191>>
F32Two == <<0, 0, 0, 64>>
F32Three == <<0, 0, 64, 64>>
F32Half == <<0, 0, 0, 63>>

\* normal, then three vertices
RecordTriangle ==
    F32Zero \o F32Zero \o F32One
    \o F32Zero \o F32Zero \o F32Zero
    \o F32One \o F32Zero \o F32Zero
    \o F32Zero \o F32One \o F32Zero

\* three coincident vertices
RecordPoint ==
    F32Zero \o F32One \o F32Zero
    \o F32One \o F32One \o F32One
    \o F32One \o F32One \o F32One
    \o F32One \o F32One \o F32One

RecordSkew ==
    F32MinusOne \o F32Zero \o F32Half
    \o F32MinusOne \o F32Zero \o F32Two
    \o F32One \o F32Half \o F32Zero
    \o F32Zero \o F32Three \o F32MinusOne

Records == {RecordTriangle, RecordPoint, RecordSkew}

\* the byte written into the header and the attribute fields
Fillers == {0, 171}

Uint32Bytes(k) ==
    <<k % 256, (k \div 256) % 256, (k \div 65536) % 256, k \div 16777216>>

RECURSIVE Concat(_, _)
Concat(recs, filler) ==
    IF recs = << >> THEN << >>
    ELSE Head(recs) \o <<filler, filler>> \o Concat(Tail(recs), filler)

FileBytes(filler, count, recs) ==
    [i \in 1..80 |-> filler] \o Uint32Bytes(count) \o Concat(recs, filler)

Bodies == UNION {[1..k -> Records] : k \in 0..MaxT}

\* <<count field, length>> of the files made from k records (len bytes):
\* whole; only attribute bytes missing; part of the last vertex missing; no
\* count field; fewer records counted than present, whole and cut; more
\* records counted than present
Shapes(k, len) ==
    {q \in {<<k, len>>, <<k, len - 2>>, <<k, len - 3>>, <<k, 83>>,
            <<k - 1, len>>, <<k - 1, len - 2>>,
            <<k + 1, len>>, <<k + 256, len>>} : q[1] >= 0}

Files ==
    UNION {{SubSeq(FileBytes(f, q[1], recs), 1, q[2]) :
                f \in Fillers,
                q \in Shapes(Len(recs), 84 + 50 * Len(recs))} : recs \in Bodies}

\* display sizes the browser may give the canvas, in CSS pixels
DisplaySizes == {<<16, 8>>, <<20, 8>>, <<24, 16>>}
\* sizes the canvas element may have before the first tick
CanvasSizes == {<<300, 150>>, <<2, 1>>}


(***************************************************************************)
(* State.                                                                  *)
(***************************************************************************)
VARIABLES
    pc,             \* where main is: "start", "awaitLoad", "rendering",
                    \* "returned" (main returned without a render loop),
                    \* "rejected" (an exception left main; console.error)
    shaderProgram,  \* "unset", "null" or "program"
    shaderFailed,   \* a shader failed to compile or the program to link
    loadPc,         \* where loadSTLFile is: "idle", "fetch", "body", "settled"
    loadOutcome,    \* "pending", "fetchRejected", "bodyRejected",
                    \* "parseThrew", "parsed"
    buffer,         \* the bytes response.arrayBuffer() resolved with, while
                    \* loadSTLFile's result waits for main (<< >> otherwise)
    loadResult,     \* what loadSTLFile resolved with
    modelData,      \* the global modelData
    buffers,        \* what initBuffers returned
    rotation,       \* the closure variable rotation, in steps of 0.005
    rafPending,     \* callbacks registered with requestAnimationFrame
    tickCount,      \* calls of render so far
    clientWidth,    \* gl.canvas.clientWidth
    clientHeight,   \* gl.canvas.clientHeight
    canvasWidth,    \* gl.canvas.width
    canvasHeight,   \* gl.canvas.height
    viewportCalls,  \* calls of gl.viewport so far
    tickLog,        \* the calls the latest render made, in order
    rotationUsed,   \* the angle the latest render gave mat4.rotate, in steps
    drawCount,      \* the vertex count the latest render gave gl.drawArrays
    displayAtTick,  \* <<clientWidth, clientHeight>> the latest render read
    steadyTick      \* the latest render read the same display size as the
                    \* render before it

vars ==
    <<pc, shaderProgram, shaderFailed, loadPc, loadOutcome,
      buffer, loadResult, modelData, buffers, rotation, rafPending, tickCount,
      clientWidth, clientHeight, canvasWidth, canvasHeight, viewportCalls,
      tickLog, rotationUsed, drawCount, displayAtTick, steadyTick>>

loadVars == <<loadPc, loadOutcome, buffer, loadResult>>
shaderVars == <<shaderProgram, shaderFailed>>
displayVars == <<clientWidth, clientHeight>>
renderVars ==
    <<rotation, rafPending, tickCount, canvasWidth, canvasHeight,
      viewportCalls, tickLog, rotationUsed, drawCount, displayAtTick,
      steadyTick>>

\* null, as a value of modelData and of loadSTLFile's result
Null == [isNull |-> TRUE, vertices |-> << >>, normals |-> << >>]
Mesh(vertices, normals) ==
    [isNull |-> FALSE, vertices |-> vertices, normals |-> normals]
NoBuffers == [created |-> FALSE, position |-> << >>, normal |-> << >>]

Init ==
    /\ pc = "start"
    /\ shaderProgram = "unset"
    /\ shaderFailed = FALSE
    /\ loadPc = "idle"
    /\ loadOutcome = "pending"
    /\ buffer = << >>
    /\ loadResult = Null
    /\ modelData = Null
    /\ buffers = NoBuffers
    /\ rotation = 0
    /\ rafPending = 0
    /\ tickCount = 0
    /\ \E size \in DisplaySizes : clientWidth = size[1] /\ clientHeight = size[2]
    /\ \E size \in CanvasSizes : canvasWidth = size[1] /\ canvasHeight = size[2]
    /\ viewportCalls = 0
    /\ tickLog = << >>
    /\ rotationUsed = 0
    /\ drawCount = 0
    /\ displayAtTick = <<0, 0>>
    /\ steadyTick = FALSE

(***************************************************************************)
(* initShaderProgram and loadShader.  vsOK, fsOK: the COMPILE_STATUS of    *)
(* the two shaders; linkOK: whether the driver links two compiled shaders. *)
(* loadShader returns null for a shader that did not compile, and          *)
(* initShaderProgram hands it to gl.attachShader unchecked.  Bindings that *)
(* follow the current WebGL IDL (non-nullable arguments) throw a TypeError *)
(* there; bindings that follow WebGL 1.0.3 (nullable arguments) record     *)
(* INVALID_VALUE and return, after which the program cannot link.  throws  *)
(* says which of the two the browser does.                                 *)
(* The result is "threw", "null" or "program".                             *)
(***************************************************************************)
loadShader(compileOK) == IF compileOK THEN "shader" ELSE "null"

initShaderProgram(vsOK, fsOK, linkOK, throws) ==
    LET vertexShader == loadShader(vsOK)
        fragmentShader == loadShader(fsOK)
        attachedAll == vertexShader # "null" /\ fragmentShader # "null"
        linkStatus == attachedAll /\ linkOK
    IN  IF ~attachedAll /\ throws THEN "threw"
        ELSE IF ~linkStatus THEN "null"
        ELSE "program"

\* lines 106-119: gl.getAttribLocation and gl.getUniformLocation of the
\* program; TRUE when building programInfo throws
ProgramInfoThrows(program, throws) == program = "null" /\ throws

(***************************************************************************)
(* main up to its await (lines 5-122).                                     *)
(***************************************************************************)
MainStart ==
    /\ pc = "start"
    /\ \E glOK, vsOK, fsOK, linkOK, nullArgThrows \in BOOLEAN :
        IF ~glOK
        THEN /\ pc' = "returned"
             /\ UNCHANGED <<shaderProgram, shaderFailed, loadPc>>
        ELSE LET program == initShaderProgram(vsOK, fsOK, linkOK, nullArgThrows)
             IN  /\ shaderFailed' = (program # "program")
                 /\ IF program = "threw"
                    THEN /\ pc' = "rejected"
                         /\ UNCHANGED <<shaderProgram, loadPc>>
                    ELSE /\ shaderProgram' = program
                         /\ IF ProgramInfoThrows(program, nullArgThrows)
                            THEN pc' = "rejected" /\ UNCHANGED loadPc
                            ELSE pc' = "awaitLoad" /\ loadPc' = "fetch"
    /\ UNCHANGED <<loadOutcome, buffer, loadResult, modelData,
                   buffers, displayVars, renderVars>>

(***************************************************************************)
(* loadSTLFile.                                                            *)
(***************************************************************************)
\* fetch(url) settles: a response, or a rejection caught at line 244
FetchSettle ==
    /\ loadPc = "fetch"
    /\ \/ /\ loadPc' = "body"
          /\ UNCHANGED <<loadOutcome, loadResult>>
       \/ /\ loadPc' = "settled"
          /\ loadOutcome' = "fetchRejected"
          /\ loadResult' = Null
    /\ UNCHANGED <<pc, shaderVars, buffer, modelData, buffers, displayVars,
                   renderVars>>

\* what loadSTLFile resolves with once the body is there
loadSTLFile(bytes) ==
    LET parsed == parseSTL(bytes)
    IN  IF parsed.threw THEN Null ELSE Mesh(parsed.vertices, parsed.normals)

\* loadSTLFile tabulated over the files, so that a file is parsed once
LoadedFiles == [bytes \in Files |-> loadSTLFile(bytes)]

\* response.arrayBuffer() settles: the bytes, parsed at once, or a rejection
BodySettle ==
    /\ loadPc = "body"
    /\ loadPc' = "settled"
    /\ \/ \E bytes \in Files :
            /\ buffer' = bytes
            /\ loadResult' = LoadedFiles[bytes]
            /\ loadOutcome' = IF loadResult'.isNull
                              THEN "parseThrew" ELSE "parsed"
       \/ /\ loadOutcome' = "bodyRejected"
          /\ loadResult' = Null
          /\ UNCHANGED buffer
    /\ UNCHANGED <<pc, shaderVars, modelData, buffers, displayVars, renderVars>>

(***************************************************************************)
(* initBuffers: two buffers, filled from the two arrays.                   *)
(***************************************************************************)
initBuffers(vertices, normals) ==
    [created |-> TRUE, position |-> vertices, normal |-> normals]

(***************************************************************************)
(* render and drawScene.                                                   *)
(***************************************************************************)
scaleFactor == 8

\* Math.floor(display / scaleFactor) of a non-negative integer
Target(display) == display \div scaleFactor

\* NeedsResize with a fault: the canvas compared with the display size itself
NeedsResizeUnscaled(cw, ch, dw, dh) == cw # dw \/ ch # dh

NeedsResize(cw, ch, dw, dh) == cw # Target(dw) \/ ch # Target(dh)

\* line 137 is logged as "resizeCheck"; lines 138-140
ResizeCalls == <<"canvas.width=", "canvas.height=", "viewport">>

\* lines 143-152
RenderCalls ==
    <<"clearColor", "clear", "perspective", "translate", "rotate",
      "rotation+=">>

\* drawScene with a fault: the draw call issued before the uniforms are set
drawSceneDrawFirst ==
    <<"enable", "depthFunc", "useProgram",
      "bindBuffer.position", "vertexAttribPointer.position",
      "enableVertexAttribArray.position",
      "bindBuffer.normal", "vertexAttribPointer.normal",
      "enableVertexAttribArray.normal",
      "invert", "transpose", "drawArrays",
      "uniformMatrix4fv.projection", "uniformMatrix4fv.modelView",
      "uniformMatrix4fv.normal", "uniform1f.time", "uniform2f.resolution">>

\* lines 178-207
drawScene ==
    <<"enable", "depthFunc", "useProgram",
      "bindBuffer.position", "vertexAttribPointer.position",
      "enableVertexAttribArray.position",
      "bindBuffer.normal", "vertexAttribPointer.normal",
      "enableVertexAttribArray.normal",
      "invert", "transpose",
      "uniformMatrix4fv.projection", "uniformMatrix4fv.modelView",
      "uniformMatrix4fv.normal", "uniform1f.time", "uniform2f.resolution",
      "drawArrays">>

\* the calls of one render, in order
RenderLog(resize) ==
    <<"resizeCheck">> \o (IF resize THEN ResizeCalls ELSE << >>)
    \o RenderCalls \o drawScene \o <<"requestAnimationFrame">>

\* line 152: rotation += 0.005, counted in steps
NextRotation(rot) == rot + 1

\* NextPending with a fault: the callback registered twice
NextPendingTwice(pending) == pending + 2

\* line 155: requestAnimationFrame(render) adds one callback
NextPending(pending) == pending + 1

\* line 206
VertexCount(data) == IF data.isNull THEN 0 ELSE Len(data.vertices) \div 3

\* one call of render, with rot the value of rotation, pending the callbacks
\* registered and data the global modelData when it starts
render(rot, pending, data) ==
    LET resize == NeedsResize(canvasWidth, canvasHeight, clientWidth, clientHeight)
    IN  /\ canvasWidth' = IF resize THEN Target(clientWidth) ELSE canvasWidth
        /\ canvasHeight' = IF resize THEN Target(clientHeight) ELSE canvasHeight
        /\ viewportCalls' = IF resize THEN viewportCalls + 1 ELSE viewportCalls
        /\ tickLog' = RenderLog(resize)
        /\ rotationUsed' = rot
        /\ rotation' = NextRotation(rot)
        /\ drawCount' = VertexCount(data)
        /\ rafPending' = NextPending(pending)
        /\ tickCount' = tickCount + 1
        /\ displayAtTick' = <<clientWidth, clientHeight>>
        /\ steadyTick' = (tickCount >= 1
                          /\ displayAtTick = <<clientWidth, clientHeight>>)

(***************************************************************************)
(* main after its await (lines 122-159).                                   *)
(***************************************************************************)
MainResume ==
    /\ pc = "awaitLoad"
    /\ loadPc = "settled"
    /\ IF loadResult.isNull
       THEN /\ pc' = "returned"
            /\ modelData' = Null
            /\ UNCHANGED <<buffers, renderVars>>
       ELSE LET vertices == normalizeModel(loadResult.vertices)
                data == Mesh(vertices, loadResult.normals)
            IN  /\ pc' = "rendering"
                /\ modelData' = data
                /\ buffers' = initBuffers(data.vertices, data.normals)
                /\ render(0, 0, data)
    /\ buffer' = << >>
    /\ UNCHANGED <<shaderVars, loadPc, loadOutcome, loadResult, displayVars>>

\* the browser runs a registered animation-frame callback
Tick ==
    /\ pc = "rendering"
    /\ rafPending > 0
    /\ tickCount < MaxTicks
    /\ render(rotation, rafPending - 1, modelData)
    /\ UNCHANGED <<pc, shaderVars, loadVars, modelData, buffers, displayVars>>

\* the browser lays the canvas out at another size
DisplayResize ==
    /\ \E size \in DisplaySizes :
        /\ size # <<clientWidth, clientHeight>>
        /\ clientWidth' = size[1]
        /\ clientHeight' = size[2]
    /\ UNCHANGED <<pc, shaderVars, loadVars, modelData, buffers, renderVars>>

Next ==
    \/ MainStart
    \/ FetchSettle
    \/ BodySettle
    \/ MainResume
    \/ Tick
    \/ DisplayResize

Spec == Init /\ [][Next]_vars


(***************************************************************************)
(* Vocabulary of the properties.                                           *)
(***************************************************************************)
\* loadSTLFile has resolved from a body and main has not resumed yet: buffer
\* and loadResult are the file and what it was decoded to
Decoded ==
    /\ pc = "awaitLoad"
    /\ loadPc = "settled"
    /\ loadOutcome \in {"parsed", "parseThrew"}

\* the count field of a file that has one
DeclaredCount(bytes) == getUint32(bytes, 80).val

\* a file shorter than its header and count imply
Truncated(bytes) ==
    Len(bytes) < 84 \/ Len(bytes) < 84 + 50 * DeclaredCount(bytes)

AllFinite(seq) == \A i \in 1..Len(seq) : IsFinite(seq[i])

\* a non-empty positions sequence whose vertices are all the same point
Coincident(positions) ==
    /\ Len(positions) > 0
    /\ \A i \in 1..Len(positions) : positions[i] = positions[((i - 1) % 3) + 1]

\* C1: every file shorter than 84 + 50*T bytes (or than 84 bytes) makes the
\* load end in an error: no Mesh is returned for it.
C1_TruncatedFileFails ==
    (Decoded /\ Truncated(buffer)) => loadResult.isNull

\* C2: positions whose vertices all coincide are refused: nothing is
\* uploaded to the GPU buffers and no NaN or Infinity is stored.
C2_CoincidentIsRefused ==
    (~loadResult.isNull /\ Coincident(loadResult.vertices))
        => /\ ~buffers.created
           /\ AllFinite(modelData.vertices)
           /\ AllFinite(buffers.position)

\* C3: after a shader failed to compile or the program failed to link there
\* is never a render tick nor a scheduled frame callback.
C3_NoRenderAfterShaderFailure ==
    shaderFailed => (tickCount = 0 /\ rafPending = 0 /\ pc # "rendering")

\* C4: a tick has run, a callback is scheduled or GPU buffers exist only
\* after the load completed with the decode and the normalization both
\* successful (the normalized positions are all finite numbers).
C4_RenderOnlyAfterGoodLoad ==
    (tickCount > 0 \/ rafPending > 0 \/ buffers.created)
        => /\ loadPc = "settled"
           /\ loadOutcome = "parsed"
           /\ AllFinite(modelData.vertices)

(***************************************************************************)
(* C5: the layout of the decoder's output.                                 *)
(***************************************************************************)
\* the file with every header byte and every attribute byte changed
Scrub(bytes) ==
    [i \in 1..Len(bytes) |->
        IF i <= 80 \/ (i > 84 /\ (i - 85) % 50 >= 48)
        THEN (bytes[i] + 1) % 256
        ELSE bytes[i]]

\* C5: a file of at least 84 + 50*T bytes decodes to 9*T positions and 9*T
\* normals; record i gives positions 9i..9i+8 (its floats at record offsets
\* 12..47, in file order) and normals 9i..9i+8 (its floats at record offsets
\* 0..11, three times over); header and attribute bytes change nothing.
C5_DecodeLayout ==
    (Decoded /\ ~Truncated(buffer)) =>
        LET T == DeclaredCount(buffer)
            positions == loadResult.vertices
            normals == loadResult.normals
        IN  /\ ~loadResult.isNull
            /\ Len(positions) = 9 * T
            /\ Len(normals) = 9 * T
            /\ \A i \in 0..(T - 1), j \in 0..2, c \in 0..2 :
                /\ positions[9 * i + 3 * j + c + 1]
                     = getFloat32(buffer, 84 + 50 * i + 12 + 12 * j + 4 * c).val
                /\ normals[9 * i + 3 * j + c + 1]
                     = getFloat32(buffer, 84 + 50 * i + 4 * c).val
            /\ loadSTLFile(Scrub(buffer)) = loadResult

\* a whole two-record file with two different records and a non-zero filler
\* has been decoded
C5_Witness ==
    /\ Decoded
    /\ ~Truncated(buffer)
    /\ DeclaredCount(buffer) = 2
    /\ buffer[1] # 0
    /\ Len(loadResult.vertices) = 18
    /\ SubSeq(loadResult.vertices, 1, 9) # SubSeq(loadResult.vertices, 10, 18)

(***************************************************************************)
(* C6: the result of the normalization, over exact arithmetic.             *)
(***************************************************************************)
AxisValues(seq, axis) ==
    {seq[i] : i \in {k \in 1..Len(seq) : (k - 1) % 3 = axis}}

Least(S) == CHOOSE x \in S : \A y \in S : NumLeq(x, y)
Greatest(S) == CHOOSE x \in S : \A y \in S : NumLeq(y, x)

Extent(seq, axis) ==
    NumSub(Greatest(AxisValues(seq, axis)), Least(AxisValues(seq, axis)))

\* the positions have a positive extent on some axis
HasExtent(positions) ==
    /\ Len(positions) > 0
    /\ AllFinite(positions)
    /\ \E a \in 0..2 : NumLess(Whole(0), Extent(positions, a))

IsTick == tickCount' = tickCount + 1

\* the step wrote the canvas size or called gl.viewport
Reconfigures ==
    \/ viewportCalls' # viewportCalls
    \/ canvasWidth' # canvasWidth
    \/ canvasHeight' # canvasHeight

\* floor(display / 8) as the number t with 8t <= display < 8t + 8
IsFloorOfEighth(t, display) == 8 * t <= display /\ display < 8 * t + 8

C8_ShutdownAvailable ==
    pc = "rendering"
        => ENABLED (Next /\ rafPending' = 0 /\ ~buffers'.created)

(***************************************************************************)
(* C9: the order of the steps of a tick.                                   *)
(***************************************************************************)
PositionOf(call) == CHOOSE i \in 1..Len(tickLog) : tickLog[i] = call
Occurs(call) == \E i \in 1..Len(tickLog) : tickLog[i] = call
Occurrences(call) == Cardinality({i \in 1..Len(tickLog) : tickLog[i] = call})

ResizeGroup == {"resizeCheck", "canvas.width=", "canvas.height=", "viewport"}
ClearGroup == {"clearColor", "clear"}
TransformGroup == {"perspective", "translate", "rotate", "rotation+="}
NormalMatrixCalls == {"invert", "transpose"}
AttributeCalls ==
    {"bindBuffer.position", "vertexAttribPointer.position",
     "enableVertexAttribArray.position", "bindBuffer.normal",
     "vertexAttribPointer.normal", "enableVertexAttribArray.normal"}
UniformCalls ==
    {"uniformMatrix4fv.projection", "uniformMatrix4fv.modelView",
     "uniformMatrix4fv.normal", "uniform1f.time", "uniform2f.resolution"}
BindGroup == {"useProgram"} \cup AttributeCalls \cup UniformCalls

\* the step of the tick a call belongs to when the normal matrix counts as
\* part of the transform composition; 0 for a call the steps do not name
ClaimedStep(call) ==
    IF call \in ResizeGroup THEN 1
    ELSE IF call \in ClearGroup THEN 2
    ELSE IF call \in TransformGroup \cup NormalMatrixCalls THEN 3
    ELSE IF call \in BindGroup THEN 4
    ELSE IF call = "drawArrays" THEN 5
    ELSE IF call = "requestAnimationFrame" THEN 6
    ELSE 0

\* the same with the normal matrix computed inside the bind-and-upload step
CodeStep(call) ==
    IF call \in NormalMatrixCalls THEN 4 ELSE ClaimedStep(call)

InOrder(Step(_)) ==
    \A i, j \in 1..Len(tickLog) :
        (i < j /\ Step(tickLog[i]) # 0 /\ Step(tickLog[j]) # 0)
            => Step(tickLog[i]) <= Step(tickLog[j])

\* every call the six steps name is made, once, except the three of a
\* reconfiguration, which are made together or not at all
EveryStepDone ==
    /\ \A call \in {"resizeCheck"} \cup ClearGroup \cup TransformGroup
                   \cup NormalMatrixCalls \cup BindGroup
                   \cup {"drawArrays", "requestAnimationFrame"} :
            Occurrences(call) = 1
    /\ \A call \in {"canvas.width=", "canvas.height=", "viewport"} :
            Occurrences(call) = Occurrences("viewport")
    /\ Occurrences("viewport") <= 1

\* the model-view matrix takes the accumulated angle, which then grows by one
\* step; the normal matrix is the transpose of the inverse; the draw call
\* covers positions.length / 3 vertices
StepContents ==
    /\ PositionOf("translate") < PositionOf("rotate")
    /\ PositionOf("rotate") < PositionOf("rotation+=")
    /\ rotation = rotationUsed + 1
    /\ PositionOf("invert") < PositionOf("transpose")
    /\ PositionOf("transpose") < PositionOf("uniformMatrix4fv.normal")
    /\ 3 * drawCount = Len(modelData.vertices)

\* C9 as stated: every tick does the six steps in order, the normal matrix
\* belonging to step 3.
C9_StepsInClaimedOrder ==
    tickCount >= 1 => (EveryStepDone /\ StepContents /\ InOrder(ClaimedStep))

\* C9 amended: every tick does the six steps in order, the normal matrix
\* being computed in step 4, after the attribute bindings and before the
\* uniform uploads.
C9_StepsInCodeOrder ==
    tickCount >= 1 =>
        /\ EveryStepDone
        /\ StepContents
        /\ InOrder(CodeStep)
        /\ \A call \in {"useProgram"} \cup AttributeCalls :
                PositionOf(call) < PositionOf("invert")
        /\ \A call \in UniformCalls : PositionOf("transpose") < PositionOf(call)

\* a tick that reconfigured and a later one that did not have both run, on a
\* mesh of two triangles
C9_Witness ==
    /\ tickCount >= 2
    /\ viewportCalls >= 1
    /\ ~Occurs("viewport")
    /\ drawCount = 6

(***************************************************************************)
(* C10: one pending callback, and the angle of the k-th tick.              *)
(***************************************************************************)
\* C10: at most one frame callback is pending (none before the first tick,
\* one after it); only a tick registers one, and each tick exactly one; the
\* k-th tick builds the model-view matrix with an angle of k - 1 steps; the
\* angle never decreases.
C10_OnePendingAndAngle ==
    /\ [](/\ rafPending <= 1
          /\ (tickCount = 0 => (rafPending = 0 /\ rotation = 0))
          /\ (tickCount >= 1 => (rafPending = 1 /\ rotationUsed = tickCount - 1)))
    /\ [][/\ rotation' >= rotation
          /\ ~IsTick => rafPending' = rafPending
          /\ IsTick =>
                rafPending' = (IF tickCount = 0 THEN 0 ELSE rafPending - 1) + 1]_vars

\* the third tick has run
C10_Witness ==
    /\ tickCount = 3
    /\ rotationUsed = 2
    /\ rafPending = 1

=============================================================================
